---- MODULE Spec2Model ----
(***************************************************************************)
(* Minesweeper (unkokaeru/minesweeper): the grid, its generation, the      *)
(* distance-ordered flood-fill reveal, flagging, the reveal-all key and    *)
(* the event loop with its win and game-over handling.                     *)
(*                                                                         *)
(* The repository holds the game twice: the class Minesweeper of           *)
(* src/game_logic.py (cells are (value, revealed, flagged) tuples), which  *)
(* main.py runs, and its split into Cell, Grid, GameLogic, the event       *)
(* handlers and GameState.  The variable "variant" says which of the two   *)
(* a behaviour follows; both are explored.                                 *)
(*                                                                         *)
(* A grid is a sequence of rows, each a sequence of cells; the cell at     *)
(* Python index [row][col] is grid[row + 1][col + 1].                      *)
(***************************************************************************)
EXTENDS Integers, Sequences, FiniteSets, TLC

(***************************************************************************)
(* Bounds of the exploration.                                              *)
(***************************************************************************)
\* Event-loop specification (Spec): board sides and handled events.
MaxWidth == 2
MaxHeight == 2
MaxEvents == 3
\* Board specification (SpecBoard): board sides and clicks of one batch.
MaxSide == 3
MaxClicks == 2
\* Generation specification (SpecGenerate): cells of the board.
MaxCells == 16
\* Reveal specification (SpecFill): flags set before the reveal, and reveals.
MaxFlags == 2
MaxReveals == 1
\* Call specification (SpecCalls): calls made on one board.
MaxCalls == 1

(***************************************************************************)
(* Program constants.                                                      *)
(***************************************************************************)
Bomb == -1

Variants == {"Minesweeper", "GameState"}

Difficulties == {"beginner", "easy", "medium", "hard", "expert"}

DIFFICULTY_PERCENTAGES ==
    [d \in Difficulties |->
        CASE d = "beginner" -> 5
          [] d = "easy"     -> 10
          [] d = "medium"   -> 15
          [] d = "hard"     -> 20
          [] d = "expert"   -> 25]

\* pygame.K_1 .. K_5 select a difficulty; K_a stands for every unbound key.
DIFFICULTY_MAP ==
    [k \in {"K_1", "K_2", "K_3", "K_4", "K_5"} |->
        CASE k = "K_1" -> "beginner"
          [] k = "K_2" -> "easy"
          [] k = "K_3" -> "medium"
          [] k = "K_4" -> "hard"
          [] k = "K_5" -> "expert"]

Keys == (DOMAIN DIFFICULTY_MAP) \cup {"K_r", "K_EQUALS", "K_MINUS", "K_TAB", "K_a"}

\* Mouse buttons: 1 primary, 2 middle, 3 secondary, 4 the wheel (unhandled).
Buttons == {1, 2, 3, 4}

\* The (i, j) pairs of "for i in range(-1, 2): for j in range(-1, 2)", in order.
Offsets ==
    << <<-1, -1>>, <<-1, 0>>, <<-1, 1>>,
       << 0, -1>>, << 0, 0>>, << 0, 1>>,
       << 1, -1>>, << 1, 0>>, << 1, 1>> >>

VARIABLES
    variant,        \* which of the two implementations runs
    width,          \* self.width / grid.width
    height,         \* self.height / grid.height
    difficulty,     \* self.difficulty
    num_bombs,      \* self.num_bombs
    grid,           \* self.grid / grid.grid: the cell matrix
    revealed_count, \* self.revealed_count / grid.revealed_count
    running,        \* truth value of play_game's local "running"
    pc,             \* position in play_game: new, top, events, done, crashed
    outcome,        \* what the last step reported: Continuing, HitBomb, Won
    steps,          \* events handled so far
    last            \* the last handled event and the state it started from

vars == <<variant, width, height, difficulty, num_bombs, grid, revealed_count,
          running, pc, outcome, steps, last>>

(***************************************************************************)
(* Cells and the grid.                                                     *)
(***************************************************************************)
NewCell == [value |-> 0, revealed |-> FALSE, flagged |-> FALSE]

NewGrid(w, h) == [r \in 1..h |-> [c \in 1..w |-> NewCell]]

Rows(g) == Len(g)

Cols(g) == IF Len(g) = 0 THEN 0 ELSE Len(g[1])

\* Python list indexing: i in [-n, n) is valid, a negative i counts from the end.
PyIndexOk(i, n) == -n <= i /\ i < n

PyIndex(i, n) == IF i < 0 THEN n + i + 1 ELSE i + 1

\* self.grid[row][col] does not raise IndexError.
InMatrix(g, row, col) == PyIndexOk(row, Rows(g)) /\ PyIndexOk(col, Cols(g))

get_cell(g, row, col) == g[PyIndex(row, Rows(g))][PyIndex(col, Cols(g))]

SetCell(g, row, col, cell) ==
    [g EXCEPT ![PyIndex(row, Rows(g))][PyIndex(col, Cols(g))] = cell]

\* The (row, col) pairs of the matrix, 0-based.
Positions(g) == (0..(Rows(g) - 1)) \X (0..(Cols(g) - 1))

\* int((percentage / 100) * (width * height)): the arithmetic of the
\* constructor once it has the table.  (How the constructor reaches the table
\* is InitBombNumCall; the state machine follows a game that was constructed.)
InitBombNum(d, w, h) == (DIFFICULTY_PERCENTAGES[d] * (w * h)) \div 100

(***************************************************************************)
(* Generation.                                                             *)
(***************************************************************************)
\* The results random.sample(range(n), k) can have, as sets of positions.
Samples(n, k) == {S \in SUBSET (0..(n - 1)) : Cardinality(S) = k}

\* Mutant: the count without the diagonal neighbours.
CountAdjacentBombsOrthogonal(g, row, col, w, h) ==
    Cardinality({k \in {2, 4, 6, 8} :
        LET r == row + Offsets[k][1]
            c == col + Offsets[k][2]
        IN  /\ 0 <= r /\ r < h
            /\ 0 <= c /\ c < w
            /\ get_cell(g, r, c).value = Bomb})

CountAdjacentBombs(g, row, col, w, h) ==
    Cardinality({k \in 1..9 :
        LET r == row + Offsets[k][1]
            c == col + Offsets[k][2]
        IN  /\ 0 <= r /\ r < h
            /\ 0 <= c /\ c < w
            /\ get_cell(g, r, c).value = Bomb})

\* "for position in bomb_positions": divmod(position, width) gives (row, col).
\* Minesweeper stores a fresh tuple, Grid only sets cell.value.
PlaceBombs(v, g, w, bomb_positions) ==
    [r \in 1..Rows(g) |-> [c \in 1..Cols(g) |->
        IF \E p \in bomb_positions : p \div w = r - 1 /\ p % w = c - 1
        THEN IF v = "Minesweeper"
             THEN [value |-> Bomb, revealed |-> FALSE, flagged |-> FALSE]
             ELSE [g[r][c] EXCEPT !.value = Bomb]
        ELSE g[r][c]]]

\* "for row in range(height): for col in range(width)", from the k-th cell on.
RECURSIVE GenerateNumbers(_, _, _, _, _)
GenerateNumbers(v, g, w, h, k) ==
    IF k >= w * h THEN g
    ELSE LET row  == k \div w
             col  == k % w
             cell == get_cell(g, row, col)
         IN  IF cell.value = Bomb
             THEN GenerateNumbers(v, g, w, h, k + 1)
             ELSE LET n == CountAdjacentBombs(g, row, col, w, h)
                      new == IF v = "Minesweeper"
                             THEN [value |-> n, revealed |-> FALSE, flagged |-> FALSE]
                             ELSE [cell EXCEPT !.value = n]
                  IN  GenerateNumbers(v, SetCell(g, row, col, new), w, h, k + 1)

GenerateGrid(v, g, w, h, bomb_positions) ==
    GenerateNumbers(v, PlaceBombs(v, g, w, bomb_positions), w, h, 0)

(***************************************************************************)
(* The flood-fill reveal: _reveal_cell and GameLogic.reveal_cells.         *)
(***************************************************************************)
\* The heap holds (distance, row, col) tuples.  math.sqrt is strictly
\* increasing on the squared distances of a board, so the heap's order on
\* (sqrt(d2), row, col) is the order on (d2, row, col) kept here.
Dist2(row, col, start_row, start_col) ==
    (row - start_row) * (row - start_row) + (col - start_col) * (col - start_col)

\* Python's tuple comparison a <= b.
TupleLE(a, b) ==
    \/ a[1] < b[1]
    \/ a[1] = b[1] /\ a[2] < b[2]
    \/ a[1] = b[1] /\ a[2] = b[2] /\ a[3] <= b[3]

\* heappop returns the least item of the heap.
HeapMin(pq) ==
    LET items == {pq[i] : i \in 1..Len(pq)}
    IN  CHOOSE x \in items : \A y \in items : TupleLE(x, y)

HeapPop(pq) ==
    LET m == HeapMin(pq)
        i == CHOOSE k \in 1..Len(pq) : pq[k] = m
    IN  SubSeq(pq, 1, i - 1) \o SubSeq(pq, i + 1, Len(pq))

\* Mutant: only the diagonal neighbours not yet enqueued are pushed.
EnqueueDiagonalOnly(enqueued, new_row, new_col, i, j) ==
    <<new_row, new_col>> \notin enqueued /\ i # 0 /\ j # 0

\* Mutant: every offset is pushed, the (0, 0) offset included.
EnqueueEveryOffset(enqueued, new_row, new_col, i, j) == TRUE

\* Mutant: only the neighbours of the other columns are pushed.
EnqueueOtherColumnsOnly(enqueued, new_row, new_col, i, j) == j # 0

\* "if (new_row, new_col) not in revealed and i != 0 or j != 0": Python reads
\* it as ((not in revealed) and i != 0) or (j != 0).
EnqueueCondition(enqueued, new_row, new_col, i, j) ==
    (<<new_row, new_col>> \notin enqueued /\ i # 0) \/ j # 0

\* The two nested for loops over the neighbours of (row, col), from offset k on.
\* st: pq the heap, enqueued the set "revealed", pushes every heappush in order.
RECURSIVE PushNeighbours(_, _, _, _, _, _)
PushNeighbours(st, row, col, start_row, start_col, k) ==
    IF k > 9 THEN st
    ELSE LET i == Offsets[k][1]
             j == Offsets[k][2]
             new_row == row + i
             new_col == col + j
         IN  IF EnqueueCondition(st.enqueued, new_row, new_col, i, j)
             THEN PushNeighbours(
                    [st EXCEPT
                       !.enqueued = @ \cup {<<new_row, new_col>>},
                       !.pq = Append(@, <<Dist2(new_row, new_col, start_row, start_col),
                                          new_row, new_col>>),
                       !.pushes = Append(@, <<new_row, new_col>>)],
                    row, col, start_row, start_col, k + 1)
             ELSE PushNeighbours(st, row, col, start_row, start_col, k + 1)

\* Mutant: the revealed test is applied to empty cells only.
SkipRevealedEmptyOnly(cell) == cell.flagged \/ (cell.revealed /\ cell.value = 0)

\* Mutant: the flag test is dropped.
SkipRevealedOnly(cell) == cell.revealed

\* "if revealed_status or flagged: continue".
SkipCell(cell) == cell.revealed \/ cell.flagged

\* Mutant: only numbered cells stop the fill.
StopsAtNumbers(value) == value > 0

\* Mutant: only a bomb stops the fill.
StopsAtBombsOnly(value) == value = Bomb

\* Mutant: the fill stops at every cell it reveals.
StopsAtEveryCell(value) == TRUE

\* "if value != 0: continue": a bomb or a numbered cell is not expanded.
StopsExpansion(value) == value # 0

\* The cell a reveal stores: Minesweeper writes (value, True, False),
\* Cell.reveal only sets revealed.
RevealedCell(v, cell) ==
    IF v = "Minesweeper"
    THEN [value |-> cell.value, revealed |-> TRUE, flagged |-> FALSE]
    ELSE [cell EXCEPT !.revealed = TRUE]

\* "while priority_queue".  w and h are self.width and self.height, which the
\* bounds test reads; a cell the test lets through that the matrix does not
\* hold raises IndexError and ends the call (raised).
RECURSIVE RevealLoop(_, _, _, _, _, _)
RevealLoop(v, st, w, h, start_row, start_col) ==
    IF st.pq = <<>> THEN st
    ELSE LET m   == HeapMin(st.pq)
             row == m[2]
             col == m[3]
             st1 == [st EXCEPT !.pq = HeapPop(st.pq)]
         IN  IF row < 0 \/ row >= h \/ col < 0 \/ col >= w
             THEN RevealLoop(v, st1, w, h, start_row, start_col)
             ELSE IF ~InMatrix(st.grid, row, col)
             THEN [st1 EXCEPT !.raised = TRUE]
             ELSE LET cell == get_cell(st.grid, row, col)
                  IN  IF SkipCell(cell)
                      THEN RevealLoop(v, st1, w, h, start_row, start_col)
                      ELSE LET st2 == [st1 EXCEPT
                                         !.grid = SetCell(@, row, col, RevealedCell(v, cell)),
                                         !.revealed_count = @ + 1,
                                         !.order = Append(@, <<row, col>>)]
                           IN  IF StopsExpansion(cell.value)
                               THEN RevealLoop(v, st2, w, h, start_row, start_col)
                               ELSE RevealLoop(v,
                                      PushNeighbours(st2, row, col, start_row, start_col, 1),
                                      w, h, start_row, start_col)

\* _reveal_cell(start_row, start_col): the grid and count it leaves, the cells
\* in the order it revealed them, every push, and whether it raised.
RevealCells(v, g, count, w, h, start_row, start_col) ==
    RevealLoop(v,
               [grid |-> g, revealed_count |-> count,
                pq |-> << <<0, start_row, start_col>> >>,
                enqueued |-> {}, order |-> <<>>,
                pushes |-> << <<start_row, start_col>> >>, raised |-> FALSE],
               w, h, start_row, start_col)

(***************************************************************************)
(* Flagging: _flag_cell and GameLogic.flag_cell / Cell.flag.               *)
(***************************************************************************)
\* Mutant: the flag is set instead of toggled.
FlagCellSetOnly(g, row, col) ==
    LET cell == get_cell(g, row, col)
    IN  IF ~cell.revealed
        THEN SetCell(g, row, col, [cell EXCEPT !.flagged = TRUE])
        ELSE g

FlagCell(g, row, col) ==
    LET cell == get_cell(g, row, col)
    IN  IF ~cell.revealed
        THEN SetCell(g, row, col, [cell EXCEPT !.flagged = ~cell.flagged])
        ELSE g

(***************************************************************************)
(* The handlers.  Each returns what the handler leaves: the grid, the      *)
(* count, width and height, the difficulty, and ret, the value returned    *)
(* ("True", "False", "None") or "raise" when an exception leaves it.       *)
(***************************************************************************)
\* _display_grid / ScreenManager.display read grid[row][col] for every row in
\* range(height) and col in range(width): IndexError when one is missing.
DisplayRaises(g, w, h) ==
    \E row \in 0..(h - 1) : \E col \in 0..(w - 1) : ~InMatrix(g, row, col)

Handled(g, count, w, h, d, ret, shown, fill) ==
    [grid |-> g, revealed_count |-> count, width |-> w, height |-> h,
     difficulty |-> d, ret |-> ret, shown |-> shown,
     order |-> fill.order, pushes |-> fill.pushes]

NoFill == [order |-> <<>>, pushes |-> <<>>]

\* Mutant: the bomb test ignores the flag.
IsBomb(cell) == cell.value = Bomb

\* "value == -1 and not flagged" and "value == -1 and flagged" of the click.
IsUnflaggedBomb(cell) == cell.value = Bomb /\ ~cell.flagged

IsFlaggedBomb(cell) == cell.value = Bomb /\ cell.flagged

\* _handle_click / MouseEventHandler.click.  shown is the screen the handler
\* put up: game_over after _show_game_over, none otherwise.
HandleClick(v, g, count, w, h, d, row, col, button) ==
    LET same == Handled(g, count, w, h, d, "True", "none", NoFill)
        fill == RevealCells(v, g, count, w, h, row, col)
        revealed == Handled(fill.grid, fill.revealed_count, w, h, d, "True", "none", fill)
    IN  IF v = "GameState" /\ ~InMatrix(g, row, col)
        THEN [same EXCEPT !.ret = "raise"]
        ELSE IF button = 1
        THEN IF ~InMatrix(g, row, col)
             THEN [same EXCEPT !.ret = "raise"]
             ELSE LET cell == get_cell(g, row, col)
                  IN  IF IsUnflaggedBomb(cell)
                      THEN IF fill.raised \/ DisplayRaises(fill.grid, w, h)
                           THEN [revealed EXCEPT !.ret = "raise"]
                           ELSE [revealed EXCEPT !.ret = "False", !.shown = "game_over"]
                      ELSE IF IsFlaggedBomb(cell)
                      THEN same
                      ELSE IF fill.raised
                           THEN [revealed EXCEPT !.ret = "raise"]
                           ELSE revealed
        ELSE IF button = 3
        THEN IF ~InMatrix(g, row, col)
             THEN [same EXCEPT !.ret = "raise"]
             ELSE [same EXCEPT !.grid = FlagCell(g, row, col)]
        ELSE IF button = 2
        THEN same
        ELSE [same EXCEPT !.ret = "None"]

\* The K_TAB loop, "for row in range(height): for col in range(width)", from
\* the k-th cell on: Minesweeper stores (value, True, False), the key handler
\* of GameState calls cell.reveal().  A missing cell raises IndexError.
RECURSIVE RevealAll(_, _, _, _, _)
RevealAll(v, g, w, h, k) ==
    IF w <= 0 \/ h <= 0 \/ k >= w * h THEN [grid |-> g, raised |-> FALSE]
    ELSE LET row == k \div w
             col == k % w
         IN  IF ~InMatrix(g, row, col)
             THEN [grid |-> g, raised |-> TRUE]
             ELSE RevealAll(v,
                            SetCell(g, row, col, RevealedCell(v, get_cell(g, row, col))),
                            w, h, k + 1)

\* _handle_key_press, and KeyEventHandler.key_press with the _reinitialise of
\* GameState._handle_event.  Both reinitialisations call __init__ with an
\* argument missing (game_logic.py:420, game_state.py:38), which raises
\* TypeError before the board is replaced; play_game catches it.
HandleKeyPress(v, g, count, w, h, d, key) ==
    LET same == Handled(g, count, w, h, d, "True", "none", NoFill)
        all  == RevealAll(v, g, w, h, 0)
    IN  IF key \in DOMAIN DIFFICULTY_MAP
        THEN IF v = "Minesweeper"
             THEN [same EXCEPT !.difficulty = DIFFICULTY_MAP[key], !.ret = "raise"]
             ELSE [same EXCEPT !.ret = "raise"]
        ELSE IF key = "K_r"
        THEN [same EXCEPT !.ret = "raise"]
        ELSE IF key = "K_EQUALS"
        THEN [same EXCEPT !.width = w + 1, !.height = h + 1, !.ret = "raise"]
        ELSE IF key = "K_MINUS"
        THEN [same EXCEPT !.width = w - 1, !.height = h - 1, !.ret = "raise"]
        ELSE IF key = "K_TAB"
        THEN [same EXCEPT !.grid = all.grid,
                          !.ret = IF all.raised THEN "raise" ELSE "True"]
        ELSE same

\* Mutant: the win test as "at least".
WinAtLeast(count, w, h, bombs) == count >= w * h - bombs

\* The win test of play_game / GameState.play.
WinCondition(count, w, h, bombs) == count = w * h - bombs

\* "running = self._handle_event(event)" inside try/except: an exception sets
\* running = True; None and False are both false in "while running".
RunningAfter(ret) == ret \in {"True", "raise"}

\* What the step reports: HitBomb when the game-over screen was put up.
OutcomeAfter(shown) == IF shown = "game_over" THEN "HitBomb" ELSE "Continuing"

(***************************************************************************)
(* The state machine.                                                      *)
(***************************************************************************)
NoEvent ==
    [kind |-> "none", row |-> 0, col |-> 0, button |-> 0, key |-> "",
     grid |-> <<>>, revealed_count |-> 0, width |-> 0, height |-> 0,
     outcome |-> "Continuing", running |-> TRUE,
     order |-> <<>>, pushes |-> <<>>, ret |-> "True", reported |-> "Continuing"]

\* The state after construction: an all-zero matrix, nothing generated yet.
InitBoard(max_width, max_height) ==
    /\ variant \in Variants
    /\ width \in 1..max_width
    /\ height \in 1..max_height
    /\ difficulty \in Difficulties
    /\ num_bombs = InitBombNum(difficulty, width, height)
    /\ grid = NewGrid(width, height)
    /\ revealed_count = 0
    /\ running = TRUE
    /\ pc = "new"
    /\ outcome = "Continuing"
    /\ steps = 0
    /\ last = NoEvent

Init == InitBoard(MaxWidth, MaxHeight)

\* _generate_grid at the start of play_game; grid.generate in GameState.
Generate ==
    /\ pc = "new"
    /\ \E bomb_positions \in Samples(width * height, num_bombs) :
          grid' = GenerateGrid(variant, grid, width, height, bomb_positions)
    /\ pc' = "top"
    /\ running' = TRUE
    /\ UNCHANGED <<variant, width, height, difficulty, num_bombs, revealed_count,
                   outcome, steps, last>>

\* The head of one loop iteration: display, then the win test.  An IndexError
\* of the display is outside the try and ends the program.
LoopTop ==
    /\ pc = "top"
    /\ IF DisplayRaises(grid, width, height)
       THEN /\ pc' = "crashed"
            /\ UNCHANGED <<running, outcome>>
       ELSE /\ pc' = "events"
            /\ IF WinCondition(revealed_count, width, height, num_bombs)
               THEN running' = FALSE /\ outcome' = "Won"
               ELSE UNCHANGED <<running, outcome>>
    /\ UNCHANGED <<variant, width, height, difficulty, num_bombs, grid,
                   revealed_count, steps, last>>

\* One event of the batch handled by "for event in pygame.event.get()".
Apply(kind, row, col, button, key, res) ==
    /\ grid' = res.grid
    /\ revealed_count' = res.revealed_count
    /\ width' = res.width
    /\ height' = res.height
    /\ difficulty' = res.difficulty
    /\ running' = RunningAfter(res.ret)
    /\ outcome' = OutcomeAfter(res.shown)
    /\ steps' = steps + 1
    /\ last' = [kind |-> kind, row |-> row, col |-> col, button |-> button,
                key |-> key, grid |-> grid, revealed_count |-> revealed_count,
                width |-> width, height |-> height,
                outcome |-> outcome, running |-> running,
                order |-> res.order, pushes |-> res.pushes, ret |-> res.ret,
                reported |-> OutcomeAfter(res.shown)]
    /\ UNCHANGED <<variant, num_bombs, pc>>

\* The cells a click can land on: the matrix, and one row and one column past
\* it (the window is resizable, so y // BOX_HEIGHT can exceed the last row).
ClickPositions(g) == Positions(g) \cup {<<Rows(g), 0>>, <<0, Cols(g)>>}

Click(bound, buttons) ==
    /\ pc = "events"
    /\ steps < bound
    /\ \E p \in ClickPositions(grid) : \E button \in buttons :
          Apply("click", p[1], p[2], button, "",
                HandleClick(variant, grid, revealed_count, width, height,
                            difficulty, p[1], p[2], button))

KeyPress(bound) ==
    /\ pc = "events"
    /\ steps < bound
    /\ \E key \in Keys :
          Apply("key", 0, 0, 0, key,
                HandleKeyPress(variant, grid, revealed_count, width, height,
                               difficulty, key))

\* pygame.QUIT: _handle_event returns False.
Quit(bound) ==
    /\ pc = "events"
    /\ steps < bound
    /\ Apply("quit", 0, 0, 0, "",
             Handled(grid, revealed_count, width, height, difficulty,
                     "False", "none", NoFill))

\* Any other event (mouse motion, key release): _handle_event returns True.
OtherEvent(bound) ==
    /\ pc = "events"
    /\ steps < bound
    /\ Apply("other", 0, 0, 0, "",
             Handled(grid, revealed_count, width, height, difficulty,
                     "True", "none", NoFill))

\* The batch is exhausted: display.flip, then "while running".
EndBatch ==
    /\ pc = "events"
    /\ pc' = IF running THEN "top" ELSE "done"
    /\ UNCHANGED <<variant, width, height, difficulty, num_bombs, grid,
                   revealed_count, running, outcome, steps, last>>

Next ==
    \/ Generate
    \/ LoopTop
    \/ Click(MaxEvents, Buttons)
    \/ KeyPress(MaxEvents)
    \/ Quit(MaxEvents)
    \/ OtherEvent(MaxEvents)
    \/ EndBatch

Spec == Init /\ [][Next]_vars

(***************************************************************************)
(* SpecBoard: larger boards, played by primary and secondary clicks that   *)
(* arrive in one event batch.                                              *)
(***************************************************************************)
InitSide == InitBoard(MaxSide, MaxSide)

NextBoard ==
    \/ Generate
    \/ LoopTop
    \/ Click(MaxClicks, {1, 3})

SpecBoard == InitSide /\ [][NextBoard]_vars

(***************************************************************************)
(* SpecGenerate: construction and generation alone, on every board shape   *)
(* of at most MaxCells cells.                                              *)
(***************************************************************************)
InitCells == InitBoard(MaxCells, MaxCells) /\ width * height <= MaxCells

SpecGenerate == InitCells /\ [][Generate]_vars

(***************************************************************************)
(* SpecFill: one reveal on a generated board of at most MaxSide x MaxSide  *)
(* cells on which up to MaxFlags hidden cells were flagged by secondary    *)
(* clicks.  It starts where the event loop waits for the primary click.    *)
(***************************************************************************)
\* _flag_cell on every cell of F, one after the other.
RECURSIVE FlagAll(_, _)
FlagAll(g, F) ==
    IF F = {} THEN g
    ELSE LET p == CHOOSE q \in F : TRUE
         IN  FlagAll(FlagCell(g, p[1], p[2]), F \ {p})

InitFill ==
    /\ variant \in Variants
    /\ width \in 1..MaxSide
    /\ height \in 1..MaxSide
    /\ difficulty \in Difficulties
    /\ num_bombs = InitBombNum(difficulty, width, height)
    /\ \E bomb_positions \in Samples(width * height, num_bombs) :
          \E F \in SUBSET ((0..(height - 1)) \X (0..(width - 1))) :
             /\ Cardinality(F) <= MaxFlags
             /\ grid = FlagAll(GenerateGrid(variant, NewGrid(width, height),
                                            width, height, bomb_positions), F)
    /\ revealed_count = 0
    /\ running = TRUE
    /\ pc = "events"
    /\ outcome = "Continuing"
    /\ steps = 0
    /\ last = NoEvent

NextFill == Click(MaxReveals, {1})

SpecFill == InitFill /\ [][NextFill]_vars

(***************************************************************************)
(* SpecCalls: the operations of the board called directly, as a client of  *)
(* Grid or Minesweeper can call them: the cell accessor with any pair of   *)
(* integers, the constructor with any arguments, generate a second time.   *)
(* "last" records the call and what it gave.                               *)
(***************************************************************************)
\* Grid.get_cell(row, col) is self.grid[row][col]: it returns the cell that
\* Python's indexing gives and raises IndexError where indexing does.
GetCellCall(g, row, col) ==
    IF InMatrix(g, row, col)
    THEN [ret |-> "cell", cell |-> get_cell(g, row, col)]
    ELSE [ret |-> "IndexError", cell |-> NewCell]

\* The attributes of the class Constants.  Its tables are set by __init__ on
\* an instance ("self.DIFFICULTY_PERCENTAGES = ..."), no code creates an
\* instance, and every use reads the class ("Constants.DIFFICULTY_PERCENTAGES").
ConstantsClassAttributes == {}

\* The bomb count of the constructor, as the interpreter runs it: the lookup
\* on the class comes first, then the membership test, then the arithmetic.
InitBombNumCall(d, w, h) ==
    IF "DIFFICULTY_PERCENTAGES" \notin ConstantsClassAttributes
    THEN [ret |-> "AttributeError", num_bombs |-> 0]
    ELSE IF d \in DOMAIN DIFFICULTY_PERCENTAGES
    THEN [ret |-> "constructed", num_bombs |-> InitBombNum(d, w, h)]
    ELSE [ret |-> "ValueError", num_bombs |-> 0]

\* A name that is no key of the table.
DifficultyNames == Difficulties \cup {"impossible"}

GetCell ==
    /\ pc = "top"
    /\ steps < MaxCalls
    /\ \E row \in (-(MaxSide + 1))..MaxSide : \E col \in (-(MaxSide + 1))..MaxSide :
          LET res == GetCellCall(grid, row, col)
          IN  last' = [kind |-> "get_cell", row |-> row, col |-> col,
                       grid |-> grid, width |-> width, height |-> height,
                       ret |-> res.ret, cell |-> res.cell]
    /\ steps' = steps + 1
    /\ UNCHANGED <<variant, width, height, difficulty, num_bombs, grid,
                   revealed_count, running, pc, outcome>>

\* Minesweeper(logger, w, h, d) / Grid(logger, w, h, d): a further object is
\* constructed; the board at hand is not touched.
Construct ==
    /\ steps < MaxCalls
    /\ \E d \in DifficultyNames : \E w \in 0..MaxSide : \E h \in 0..MaxSide :
          LET res == InitBombNumCall(d, w, h)
          IN  last' = [kind |-> "construct", difficulty |-> d,
                       width |-> w, height |-> h,
                       ret |-> res.ret, num_bombs |-> res.num_bombs]
    /\ steps' = steps + 1
    /\ UNCHANGED <<variant, width, height, difficulty, num_bombs, grid,
                   revealed_count, running, pc, outcome>>

\* _generate_grid() / grid.generate() called on a board that is generated.
GenerateAgain ==
    /\ pc = "top"
    /\ steps < MaxCalls
    /\ \E bomb_positions \in Samples(width * height, num_bombs) :
          grid' = GenerateGrid(variant, grid, width, height, bomb_positions)
    /\ last' = [kind |-> "generate", grid |-> grid]
    /\ steps' = steps + 1
    /\ UNCHANGED <<variant, width, height, difficulty, num_bombs,
                   revealed_count, running, pc, outcome>>

NextCalls ==
    \/ Generate
    \/ GetCell
    \/ Construct
    \/ GenerateAgain

SpecCalls == InitSide /\ [][NextCalls]_vars

(***************************************************************************)
(* Vocabulary of the properties.                                           *)
(***************************************************************************)
ValueAt(g, p) == get_cell(g, p[1], p[2]).value

RevealedSet(g) == {p \in Positions(g) : get_cell(g, p[1], p[2]).revealed}

FlaggedSet(g) == {p \in Positions(g) : get_cell(g, p[1], p[2]).flagged}

BombSet(g) == {p \in Positions(g) : ValueAt(g, p) = Bomb}

\* The in-bounds Moore neighbours of p: the up to 8 cells around it.
Moore(g, p) ==
    {q \in Positions(g) :
        /\ q # p
        /\ q[1] - p[1] \in {-1, 0, 1}
        /\ q[2] - p[2] \in {-1, 0, 1}}

\* The matrix has height rows of width cells.
Consistent(g, w, h) == Rows(g) = h /\ Cols(g) = w

(***************************************************************************)
(* C1.  After generate, exactly num_bombs cells have value Bomb and every  *)
(* other cell's value is the number of Bomb cells among its Moore          *)
(* neighbours, clipped at the board edges.                                 *)
(***************************************************************************)
C1_GenerateExact ==
    pc # "new" =>
        /\ Cardinality(BombSet(grid)) = num_bombs
        /\ \A p \in Positions(grid) :
              ValueAt(grid, p) # Bomb =>
                  ValueAt(grid, p) = Cardinality(Moore(grid, p) \cap BombSet(grid))

\* A generated 4 x 4 board with four bombs, one cell that touches three of
\* them diagonally or orthogonally and one cell that touches none.
C1_Witness ==
    /\ pc # "new"
    /\ width = 4 /\ height = 4 /\ num_bombs = 4
    /\ \E p \in Positions(grid) : ValueAt(grid, p) = 3
    /\ \E p \in Positions(grid) : ValueAt(grid, p) = 0

(***************************************************************************)
(* The reveal a primary click makes.                                       *)
(***************************************************************************)
\* The last event was a primary click on a cell of the matrix.
PrimaryClick == last.kind = "click" /\ last.button = 1 /\ InMatrix(last.grid, last.row, last.col)

Start == <<last.row, last.col>>

\* The cell the click landed on, as it was before the click.
StartCell == get_cell(last.grid, last.row, last.col)

\* The 8-connected region of value-0 cells that holds the cells of S.
RECURSIVE ZeroClosure(_, _)
ZeroClosure(g, S) ==
    LET T == S \cup {q \in Positions(g) :
                        ValueAt(g, q) = 0 /\ \E p \in S : q \in Moore(g, p)}
    IN  IF T = S THEN S ELSE ZeroClosure(g, T)

ZeroRegion(g, p) == ZeroClosure(g, {p})

\* The region of p and every in-bounds Moore neighbour of a cell of it.
RegionWithBorder(g, p) ==
    ZeroRegion(g, p) \cup UNION {Moore(g, q) : q \in ZeroRegion(g, p)}

(***************************************************************************)
(* C2.  On a generated board with nothing revealed and nothing flagged, a  *)
(* reveal on a value-0 cell leaves revealed exactly the 8-connected zero   *)
(* region of the start together with every in-bounds Moore neighbour of    *)
(* that region, and revealed_count is the size of that set.                *)
(***************************************************************************)
C2_FloodRegion ==
    (/\ PrimaryClick
     /\ RevealedSet(last.grid) = {}
     /\ FlaggedSet(last.grid) = {}
     /\ StartCell.value = 0)
    => /\ RevealedSet(grid) = RegionWithBorder(last.grid, Start)
       /\ revealed_count = Cardinality(RegionWithBorder(last.grid, Start))

\* A two-bomb board where the fill stopped at numbered cells: the region has
\* several zero cells and a cell without a bomb stays hidden.
C2_Witness ==
    /\ PrimaryClick
    /\ RevealedSet(last.grid) = {}
    /\ FlaggedSet(last.grid) = {}
    /\ StartCell.value = 0
    /\ num_bombs = 2
    /\ Cardinality(ZeroRegion(last.grid, Start)) >= 2
    /\ \E p \in Positions(grid) : ValueAt(grid, p) > 0 /\ p \notin RevealedSet(grid)
    /\ \E p \in RevealedSet(grid) : ValueAt(grid, p) > 0

(***************************************************************************)
(* C3.  A reveal never turns a flagged cell into a revealed one, and the   *)
(* only Bomb cell it can reveal is its own start cell, when that cell is   *)
(* an unflagged Bomb.                                                      *)
(***************************************************************************)
C3_FlaggedAndBombsStayHidden ==
    PrimaryClick =>
        \A p \in Positions(grid) :
            LET before == get_cell(last.grid, p[1], p[2])
                after  == get_cell(grid, p[1], p[2])
            IN  /\ before.flagged => after.revealed = before.revealed
                /\ (after.revealed /\ ~before.revealed /\ after.value = Bomb)
                      => (p = Start /\ IsUnflaggedBomb(StartCell))

\* The fill reached a flagged cell and left it hidden: it lies next to a zero
\* cell that this reveal uncovered, on a board that has a bomb.
C3_Witness ==
    /\ PrimaryClick
    /\ num_bombs >= 1
    /\ \E p \in FlaggedSet(last.grid) :
          /\ p \notin RevealedSet(grid)
          /\ \E q \in Moore(grid, p) :
                /\ ValueAt(grid, q) = 0
                /\ q \in RevealedSet(grid) \ RevealedSet(last.grid)

(***************************************************************************)
(* C4.  When the loop tests for a win after a reveal whose start cell is   *)
(* not a Bomb, it reports Won exactly when revealed_count equals           *)
(* width * height - num_bombs, and Continuing for every smaller count.     *)
(***************************************************************************)
C4_WinExactlyAtCount ==
    [][(pc = "top" /\ PrimaryClick /\ StartCell.value # Bomb)
         => /\ (outcome' = "Won") <=> (revealed_count = width * height - num_bombs)
            /\ (revealed_count < width * height - num_bombs) => (outcome' = "Continuing")
      ]_vars

\* The loop reported a win after a reveal of a numbered cell, on a board with a
\* bomb where every cell but the bomb is revealed.
C4_Witness ==
    /\ outcome = "Won"
    /\ PrimaryClick
    /\ StartCell.value > 0
    /\ num_bombs >= 1
    /\ Consistent(grid, width, height)
    /\ RevealedSet(grid) = Positions(grid) \ BombSet(grid)

(***************************************************************************)
(* C5.  A primary click on an unflagged Bomb cell reports HitBomb whatever *)
(* revealed_count is, leaves that cell revealed, and changes no other      *)
(* cell: there is no flood fill from a bomb.                               *)
(***************************************************************************)
C5_BombClick ==
    (PrimaryClick /\ IsUnflaggedBomb(StartCell))
    => /\ last.reported = "HitBomb"
       /\ outcome = "HitBomb"
       /\ ~running
       /\ get_cell(grid, last.row, last.col).revealed
       /\ \A p \in Positions(grid) \ {Start} :
             get_cell(grid, p[1], p[2]) = get_cell(last.grid, p[1], p[2])

\* A bomb clicked after another cell had been revealed, with a hidden
\* neighbour that is no bomb.
C5_Witness ==
    /\ PrimaryClick
    /\ IsUnflaggedBomb(StartCell)
    /\ ~StartCell.revealed
    /\ last.revealed_count > 0
    /\ outcome = "HitBomb"
    /\ \E q \in Moore(grid, Start) : ValueAt(grid, q) # Bomb /\ q \notin RevealedSet(grid)

(***************************************************************************)
(* C6.  Once HitBomb or Won has been reported, no later event, the events  *)
(* queued in the same batch included, brings the game back to Continuing   *)
(* or changes a cell or revealed_count.  (No step of the program is a      *)
(* reinitialisation: both reinitialisations raise before replacing the     *)
(* board.)  Stated of every handled event: if the game was at HitBomb or   *)
(* Won when the event arrived, it still is and the board is as it was.     *)
(***************************************************************************)
C6_TerminalStays ==
    (last.kind # "none" /\ last.outcome \in {"HitBomb", "Won"})
    => /\ outcome # "Continuing"
       /\ grid = last.grid
       /\ revealed_count = last.revealed_count

(***************************************************************************)
(* C7.  No cell is revealed and flagged at the same time.                  *)
(***************************************************************************)
C7_NeverRevealedAndFlagged ==
    \A p \in Positions(grid) :
        ~(get_cell(grid, p[1], p[2]).revealed /\ get_cell(grid, p[1], p[2]).flagged)

(***************************************************************************)
(* C8.  A flag (secondary click) on a revealed cell changes nothing; on a  *)
(* hidden cell it toggles that cell's flagged bit and nothing else, and a  *)
(* second flag on the same cell gives back the board the first one found.  *)
(***************************************************************************)
SecondaryClick ==
    last.kind = "click" /\ last.button = 3 /\ InMatrix(last.grid, last.row, last.col)

\* The board a further secondary click on the same cell leaves.
FlaggedAgain ==
    HandleClick(variant, grid, revealed_count, width, height, difficulty,
                last.row, last.col, 3)

C8_FlagToggles ==
    SecondaryClick =>
        /\ revealed_count = last.revealed_count
        /\ StartCell.revealed => grid = last.grid
        /\ ~StartCell.revealed =>
              /\ grid = SetCell(last.grid, last.row, last.col,
                                [StartCell EXCEPT !.flagged = ~StartCell.flagged])
              /\ FlaggedAgain.grid = last.grid
              /\ FlaggedAgain.revealed_count = last.revealed_count

\* The second of two flags on one hidden cell: the cell was flagged when the
\* click arrived and is unflagged now, while another cell is revealed.
C8_Witness ==
    /\ SecondaryClick
    /\ ~StartCell.revealed
    /\ StartCell.flagged
    /\ ~get_cell(grid, last.row, last.col).flagged
    /\ RevealedSet(grid) # {}

(***************************************************************************)
(* C9.  A reveal on a cell that is already revealed and is no Bomb leaves  *)
(* every cell and revealed_count as they were and reports Continuing; when *)
(* the win test did not already hold, the game is Continuing afterwards.   *)
(***************************************************************************)
C9_RevealIdempotent ==
    (PrimaryClick /\ StartCell.revealed /\ StartCell.value # Bomb)
    => /\ grid = last.grid
       /\ revealed_count = last.revealed_count
       /\ last.reported = "Continuing"
       /\ ~WinCondition(last.revealed_count, last.width, last.height, num_bombs)
             => outcome = "Continuing"

\* A revealed zero cell clicked again while a neighbour of it is still hidden.
C9_Witness ==
    /\ PrimaryClick
    /\ StartCell.revealed
    /\ StartCell.value = 0
    /\ last.revealed_count > 0
    /\ \E q \in Moore(grid, Start) : q \notin RevealedSet(grid)
    /\ outcome = "Continuing"

(***************************************************************************)
(* C10.  A primary click on a flagged Bomb changes no cell and not         *)
(* revealed_count, and the game stays Continuing: the click returns True   *)
(* and, unless the win test already held, no win is reported after it.     *)
(***************************************************************************)
C10_FlaggedBombClick ==
    (PrimaryClick /\ IsFlaggedBomb(StartCell))
    => /\ grid = last.grid
       /\ revealed_count = last.revealed_count
       /\ last.reported = "Continuing"
       /\ last.ret = "True"
       /\ ~WinCondition(last.revealed_count, last.width, last.height, num_bombs)
             => outcome = "Continuing"

\* A flagged, hidden bomb clicked on a board where another cell is revealed.
C10_Witness ==
    /\ PrimaryClick
    /\ IsFlaggedBomb(StartCell)
    /\ ~StartCell.revealed
    /\ last.revealed_count > 0
    /\ last.outcome = "Continuing"
    /\ outcome = "Continuing"

(***************************************************************************)
(* C11.  After the reveal-all key, whatever cells were flagged before it,  *)
(* every cell is revealed and not flagged and has the value it had.        *)
(***************************************************************************)
\* The last event was the reveal-all key, on a board whose matrix has the
\* dimensions width and height say.
RevealAllKey ==
    /\ last.kind = "key"
    /\ last.key = "K_TAB"
    /\ Consistent(last.grid, last.width, last.height)

C11_RevealAllClears ==
    RevealAllKey =>
        /\ Positions(grid) = Positions(last.grid)
        /\ \A p \in Positions(grid) :
              /\ get_cell(grid, p[1], p[2]).revealed
              /\ ~get_cell(grid, p[1], p[2]).flagged
              /\ ValueAt(grid, p) = ValueAt(last.grid, p)

(***************************************************************************)
(* C12.  On a generated board without bombs and without flags, the first   *)
(* reveal, of whatever cell, leaves every cell revealed, and the win test  *)
(* that follows it reports Won.  The 1 x 1 board is such a board for every *)
(* difficulty.                                                             *)
(***************************************************************************)
FirstRevealNoBombs ==
    /\ PrimaryClick
    /\ num_bombs = 0
    /\ Consistent(last.grid, last.width, last.height)
    /\ RevealedSet(last.grid) = {}
    /\ FlaggedSet(last.grid) = {}

C12_NoBombsFirstRevealWins ==
    [][/\ FirstRevealNoBombs' =>
             /\ RevealedSet(grid') = Positions(grid')
             /\ revealed_count' = width' * height'
       /\ (FirstRevealNoBombs /\ pc = "top") => outcome' = "Won"
      ]_vars

\* Won was reported after the first reveal on a 2 x 2 board without bombs.
C12_Witness ==
    /\ FirstRevealNoBombs
    /\ width = 2 /\ height = 2
    /\ outcome = "Won"
    /\ ~running

(***************************************************************************)
(* C13.  The cell accessor fails for every (row, col) with row outside     *)
(* [0, height) or col outside [0, width), negative indices included, and   *)
(* returns no cell for such a coordinate.                                  *)
(***************************************************************************)
C13_AccessorRejectsOutside ==
    (/\ last.kind = "get_cell"
     /\ (last.row < 0 \/ last.row >= last.height \/ last.col < 0 \/ last.col >= last.width))
    => last.ret # "cell"

(***************************************************************************)
(* C14.  No board has a width or height of 0 or less: construction with    *)
(* such a dimension fails, and a shrink key never leaves such a board.     *)
(***************************************************************************)
C14_ShrinkKeepsPositive ==
    (last.kind = "key" /\ last.key = "K_MINUS") => (width > 0 /\ height > 0)

(***************************************************************************)
(* C15.  A second generate on a board either leaves the board as it was or *)
(* leaves exactly num_bombs Bomb cells with exact counts around them; it   *)
(* never leaves more than num_bombs bombs.                                 *)
(***************************************************************************)
C15_SecondGenerate ==
    last.kind = "generate" =>
        \/ grid = last.grid
        \/ /\ Cardinality(BombSet(grid)) = num_bombs
           /\ \A p \in Positions(grid) :
                 ValueAt(grid, p) # Bomb =>
                     ValueAt(grid, p) = Cardinality(Moore(grid, p) \cap BombSet(grid))

(***************************************************************************)
(* C16.  In every state that clicks and keys reach, width and height are   *)
(* positive and the matrix has height rows of width cells.                 *)
(***************************************************************************)
C16_DimensionsMatchMatrix ==
    /\ width > 0
    /\ height > 0
    /\ Consistent(grid, width, height)
    /\ \A r \in 1..Rows(grid) : Len(grid[r]) = width

(***************************************************************************)
(* C17.  Construction with positive width and height and one of the five   *)
(* difficulty names gives num_bombs = percentage * width * height / 100,   *)
(* truncated; any other name is rejected with an error.                    *)
(***************************************************************************)
C17_BombCount ==
    (last.kind = "construct" /\ last.width > 0 /\ last.height > 0) =>
        IF last.difficulty \in Difficulties
        THEN /\ last.ret = "constructed"
             /\ last.num_bombs =
                   (DIFFICULTY_PERCENTAGES[last.difficulty] * last.width * last.height) \div 100
        ELSE last.ret # "constructed"

(***************************************************************************)
(* C18.  Within one reveal call the cells are revealed in non-decreasing   *)
(* order of their Euclidean distance from the start cell.  (Distances are  *)
(* compared by their squares.)                                             *)
(***************************************************************************)
C18_DistanceOrder ==
    PrimaryClick =>
        \A a \in 1..Len(last.order) : \A b \in 1..Len(last.order) :
            a < b => Dist2(last.order[a][1], last.order[a][2], last.row, last.col)
                       <= Dist2(last.order[b][1], last.order[b][2], last.row, last.col)

(***************************************************************************)
(* The plain breadth-first flood fill: a first-in first-out queue, and     *)
(* each of the 8 neighbours of a value-0 cell enqueued at most once.       *)
(***************************************************************************)
RECURSIVE BfsPush(_, _, _)
BfsPush(st, p, k) ==
    IF k > 9 THEN st
    ELSE LET q == <<p[1] + Offsets[k][1], p[2] + Offsets[k][2]>>
         IN  IF q # p /\ q \notin st.seen
             THEN BfsPush([st EXCEPT !.seen = @ \cup {q}, !.queue = Append(@, q)], p, k + 1)
             ELSE BfsPush(st, p, k + 1)

RECURSIVE BfsLoop(_)
BfsLoop(st) ==
    IF st.queue = <<>> THEN st
    ELSE LET p   == Head(st.queue)
             st1 == [st EXCEPT !.queue = Tail(@)]
         IN  IF p \notin Positions(st.grid)
             THEN BfsLoop(st1)
             ELSE LET cell == get_cell(st.grid, p[1], p[2])
                  IN  IF cell.revealed \/ cell.flagged
                      THEN BfsLoop(st1)
                      ELSE LET st2 == [st1 EXCEPT
                                         !.grid = SetCell(@, p[1], p[2],
                                                          [cell EXCEPT !.revealed = TRUE]),
                                         !.revealed_count = @ + 1]
                           IN  IF cell.value # 0
                               THEN BfsLoop(st2)
                               ELSE BfsLoop(BfsPush(st2, p, 1))

BfsFill(g, count, start) ==
    BfsLoop([grid |-> g, revealed_count |-> count, queue |-> <<start>>, seen |-> {start}])

(***************************************************************************)
(* C19.  Whatever the generated board, the flags on it and the start cell, *)
(* the reveal of the code ends with the board and the revealed_count that  *)
(* the plain breadth-first flood fill from the same cell ends with.        *)
(***************************************************************************)
RevealCall == PrimaryClick /\ ~IsFlaggedBomb(StartCell)

C19_SameAsBreadthFirst ==
    RevealCall =>
        /\ grid = BfsFill(last.grid, last.revealed_count, Start).grid
        /\ revealed_count = BfsFill(last.grid, last.revealed_count, Start).revealed_count

\* A fill on a board with a bomb and a flag that revealed several cells, went
\* round a flagged cell and left a cell without flag or bomb hidden.
C19_Witness ==
    /\ RevealCall
    /\ num_bombs >= 1
    /\ Len(last.order) >= 4
    /\ \E p \in FlaggedSet(grid) : \E q \in Moore(grid, p) :
          ValueAt(grid, q) = 0 /\ q \in RevealedSet(grid)
    /\ \E p \in Positions(grid) :
          /\ p \notin RevealedSet(grid) \cup FlaggedSet(grid)
          /\ ValueAt(grid, p) # Bomb

(***************************************************************************)
(* C20.  Within one reveal call no coordinate is pushed onto the frontier  *)
(* more than once.                                                         *)
(***************************************************************************)
C20_NoCoordinatePushedTwice ==
    PrimaryClick =>
        \A a \in 1..Len(last.pushes) : \A b \in 1..Len(last.pushes) :
            a # b => last.pushes[a] # last.pushes[b]

(***************************************************************************)
(* C21.  Every reveal call terminates: it returns with the frontier empty, *)
(* it reveals no cell twice, and the pushes it makes are bounded by the    *)
(* board size: one for the start and at most eight for each cell of the    *)
(* board.                                                                  *)
(***************************************************************************)
\* The reveal call of the last click, run again on the state the click found.
LastFill ==
    RevealCells(variant, last.grid, last.revealed_count, last.width, last.height,
                last.row, last.col)

C21_RevealTerminates ==
    RevealCall =>
        /\ LastFill.pq = <<>>
        /\ ~LastFill.raised
        /\ Len(last.order) <= width * height
        /\ Len(last.pushes) <= 1 + 8 * Len(last.order)
        /\ Len(last.pushes) <= 1 + 8 * (width * height)

\* A fill of a whole 3 x 3 board: nine cells revealed, with more pushes than
\* the board has cells.
C21_Witness ==
    /\ RevealCall
    /\ width = 3 /\ height = 3
    /\ Len(last.order) = 9
    /\ Len(last.pushes) > 9

(***************************************************************************)
(* C22.  A reveal on a hidden, unflagged cell whose value is a count from  *)
(* 1 to 8 reveals that cell only: revealed_count grows by one and every    *)
(* other cell is as it was.                                                *)
(***************************************************************************)
NumberedClick ==
    /\ PrimaryClick
    /\ ~StartCell.revealed
    /\ ~StartCell.flagged
    /\ StartCell.value \in 1..8

C22_NumberedCellAlone ==
    NumberedClick =>
        /\ grid = SetCell(last.grid, last.row, last.col,
                          [StartCell EXCEPT !.revealed = TRUE])
        /\ revealed_count = last.revealed_count + 1

\* A cell of value 2 revealed next to a value-0 cell that stays hidden.
C22_Witness ==
    /\ NumberedClick
    /\ StartCell.value = 2
    /\ \E q \in Moore(grid, Start) : ValueAt(grid, q) = 0 /\ q \notin RevealedSet(grid)

(***************************************************************************)
(* C23.  Whenever the win test revealed_count = width * height - num_bombs *)
(* holds on a generated board played by clicks, every cell that is no bomb *)
(* is revealed and no Bomb cell is revealed.                               *)
(***************************************************************************)
C23_WinMeansSafeCellsRevealed ==
    (pc # "new" /\ WinCondition(revealed_count, width, height, num_bombs))
    => RevealedSet(grid) = Positions(grid) \ BombSet(grid)

(***************************************************************************)
(* C24.  On a generated board played by reveals and flags, revealed_count  *)
(* is the number of revealed cells; a reveal adds the number of cells it   *)
(* newly reveals and a flag leaves it as it is.                            *)
(***************************************************************************)
C24_CountIsRevealedCells ==
    /\ revealed_count = Cardinality(RevealedSet(grid))
    /\ PrimaryClick =>
          /\ RevealedSet(last.grid) \subseteq RevealedSet(grid)
          /\ revealed_count - last.revealed_count
                = Cardinality(RevealedSet(grid) \ RevealedSet(last.grid))
    /\ SecondaryClick =>
          /\ revealed_count = last.revealed_count
          /\ RevealedSet(grid) = RevealedSet(last.grid)

\* The second of two reveals: it found cells revealed, revealed more than one
\* cell itself, and left a cell hidden.
C24_Witness ==
    /\ PrimaryClick
    /\ last.revealed_count >= 1
    /\ revealed_count - last.revealed_count >= 2
    /\ RevealedSet(grid) # Positions(grid)

====
